---------------------------- MODULE Spec2Model ----------------------------
(***************************************************************************)
(* Model of src/src/index.ts, class YoutubeDLPApi (first definition of the *)
(* class, lines 21-411): the format selection of handleDownload and the    *)
(* life of one POST /api/download request: the response timer set by       *)
(* start(), the yt-dlp info call, the selection, the spawned yt-dlp        *)
(* download with its timeout, close and error handlers.                    *)
(* Beside it: the selections of several requests served by one instance,   *)
(* the cleanup of the download directory, cleanUpOldFiles, the output     *)
(* paths handleDownload computes, and one download writing its output     *)
(* file while the cleanup runs on the same clock.                          *)
(*                                                                         *)
(* Sizes are counted in abstract units; maxDownloadSizeBytes is the budget *)
(* in the same units.                                                      *)
(***************************************************************************)
EXTENDS Integers, Sequences, FiniteSets, TLC

(***************************************************************************)
(* JavaScript values of the optional numeric fields of a format: a pair    *)
(* <<type, number>>.                                                       *)
(***************************************************************************)
Undefined == <<"undefined", 0>>

Null == <<"null", 0>>

Num(n) == <<"number", n>>

IsNum(v) == v[1] = "number"

\* JavaScript truthiness of such a value: a number other than 0.
Truthy(v) == IsNum(v) /\ v[2] # 0

\* a || b
JsOr(a, b) == IF Truthy(a) THEN a ELSE b

\* a || b || 0, as a number
JsOrZero(a, b) == LET v == JsOr(a, b) IN IF Truthy(v) THEN v[2] ELSE 0

(***************************************************************************)
(* Bounds of the model.                                                    *)
(***************************************************************************)
\* largest size (in units) a format of the checked catalogs declares
MaxSize == 3

\* longest catalog the selection is checked on
MaxFormats == 3

\* longest catalog an info call returns in the request life cycle
MaxReqFormats == 2

\* most stderr chunks a download emits
MaxStderrChunks == 2

\* the size budget, this.maxDownloadSizeBytes, in units
maxDownloadSizeBytes == 2

\* most files the download directory ever holds
MaxFiles == 2

\* latest time, Date.now(), in units
MaxClock == 3

\* the retention threshold, this.fileRetentionTimeMs, in units of time
fileRetentionTimeMs == 1

\* The timeout is longer than the retention threshold.
timeoutBeyondRetention == fileRetentionTimeMs + 1

\* the timeout of the requests and of the downloads, this.timeout, in units
\* of time
timeout == 1

\* longest url, in characters
MaxUrlLen == 2

\* the length the sanitized url is cut to, substring(0, 50), in characters
fragmentLength == 1

allowedExtensions == {"mp4", "webm"}

(***************************************************************************)
(* The formats of the checked catalogs.  format_id is the position in the  *)
(* catalog.                                                                *)
(***************************************************************************)
Codecs == {<<"avc1", "mp4a">>, <<"avc1", "none">>, <<"none", "mp4a">>}

Fmt(codecs, ext, fs, fa, pref) ==
    [vcodec |-> codecs[1], acodec |-> codecs[2], ext |-> ext,
     filesize |-> fs, filesize_approx |-> fa, preference |-> pref]

Shapes ==
    \* exact size, no preference
    { Fmt(c, "mp4", Num(n), Undefined, Undefined) : c \in Codecs, n \in 0..MaxSize }
    \* exact size, preference 1
    \cup { Fmt(c, "mp4", Num(n), Undefined, Num(1)) :
             c \in Codecs, n \in {1, MaxSize} }
    \* size fields present but null, or both absent
    \cup { Fmt(c, "mp4", fs, Undefined, Undefined) :
             c \in Codecs, fs \in {Null, Undefined} }
    \* approximate size only
    \cup { Fmt(c, "webm", Null, Num(1), Undefined) : c \in Codecs }
    \* a container outside the allowlist
    \cup { Fmt(c, "m4a", Num(1), Undefined, Undefined) : c \in Codecs }
    \* no track at all, a negative preference, an exact size of 0 beside an
    \* approximate one
    \cup { Fmt(<<"none", "none">>, "mp4", Num(1), Undefined, Undefined),
           Fmt(<<"avc1", "mp4a">>, "mp4", Num(1), Undefined, Num(-1)),
           Fmt(<<"avc1", "mp4a">>, "mp4", Num(0), Num(MaxSize), Undefined) }

WithId(shape, i) ==
    [format_id |-> i, vcodec |-> shape.vcodec, acodec |-> shape.acodec,
     ext |-> shape.ext, filesize |-> shape.filesize,
     filesize_approx |-> shape.filesize_approx, preference |-> shape.preference]

\* The catalog of the shapes sh[1], ..., sh[k].
Catalog(sh) == [i \in DOMAIN sh |-> WithId(sh[i], i)]

\* The shape sequences of the catalogs of k formats.
ShapeSeqs(k) == [1..k -> Shapes]

(***************************************************************************)
(* Format selection, handleDownload lines 163-249.                         *)
(***************************************************************************)
\* A format without preference sorts below every declared preference.
QualityMissingLast(f) == IF IsNum(f.preference) THEN f.preference[2] ELSE -2

\* a.preference || 0
Quality(f) == JsOrZero(f.preference, Undefined)

\* f.filesize || f.filesize_approx
SizeOf(f) == JsOr(f.filesize, f.filesize_approx)

\* f.filesize || f.filesize_approx || 0
SizeOrZero(f) == JsOrZero(f.filesize, f.filesize_approx)

\* f.filesize !== undefined || f.filesize_approx !== undefined
HasEstimatedSize(f) == f.filesize # Undefined \/ f.filesize_approx # Undefined

\* The filter of the combined formats without the test of the codecs.
IsCombinedAnyCodec(f) == HasEstimatedSize(f) /\ f.ext \in allowedExtensions

IsCombined(f) ==
    /\ f.vcodec # "none" /\ f.acodec # "none"
    /\ HasEstimatedSize(f)
    /\ f.ext \in allowedExtensions

\* The filter of the video-only formats without the test of the container.
IsVideoOnlyAnyContainer(f) ==
    /\ f.vcodec # "none" /\ f.acodec = "none"
    /\ HasEstimatedSize(f)

IsVideoOnly(f) ==
    /\ f.vcodec # "none" /\ f.acodec = "none"
    /\ HasEstimatedSize(f)
    /\ f.ext \in allowedExtensions

IsAudioOnly(f) ==
    /\ f.acodec # "none" /\ f.vcodec = "none"
    /\ HasEstimatedSize(f)
    /\ f.ext \in allowedExtensions

\* The comparator of the combined formats: negative when a sorts before b.
CompareCombined(a, b) ==
    IF Quality(a) # Quality(b)
    THEN Quality(b) - Quality(a)
    ELSE SizeOrZero(b) - SizeOrZero(a)

\* The comparator of the video-only and of the audio-only formats.
ComparePreference(a, b) == Quality(b) - Quality(a)

Compare(mode, a, b) ==
    IF mode = "combined" THEN CompareCombined(a, b) ELSE ComparePreference(a, b)

\* Array.prototype.sort is stable: x goes before the first element that
\* sorts strictly after it.
RECURSIVE InsertSorted(_, _, _)
InsertSorted(sorted, x, mode) ==
    IF sorted = <<>> THEN <<x>>
    ELSE IF Compare(mode, Head(sorted), x) > 0
         THEN <<x>> \o sorted
         ELSE <<Head(sorted)>> \o InsertSorted(Tail(sorted), x, mode)

RECURSIVE Sort(_, _)
Sort(s, mode) ==
    IF s = <<>> THEN <<>>
    ELSE InsertSorted(Sort(SubSeq(s, 1, Len(s) - 1), mode), s[Len(s)], mode)

combinedFormats(formats) ==
    Sort(SelectSeq(formats, LAMBDA f : IsCombined(f)), "combined")

videoOnlyFormats(formats) ==
    Sort(SelectSeq(formats, LAMBDA f : IsVideoOnly(f)), "preference")

audioOnlyFormats(formats) ==
    Sort(SelectSeq(formats, LAMBDA f : IsAudioOnly(f)), "preference")

\* size && size <= this.maxDownloadSizeBytes
FitsLimit(f) == Truthy(SizeOf(f)) /\ SizeOf(f)[2] <= maxDownloadSizeBytes

\* The for loop over combinedFormats: the first that fits, or <<>>.
RECURSIVE FirstFit(_)
FirstFit(s) ==
    IF s = <<>> THEN <<>>
    ELSE IF FitsLimit(Head(s)) THEN <<Head(s)>> ELSE FirstFit(Tail(s))

\* What the selection leaves: a format code to download (status 0), or the
\* response it sends.
Selected(code, size, muxing) ==
    [selectedFormatCode |-> code, estimatedFileSize |-> size,
     requiresMuxing |-> muxing, status |-> 0, error |-> "none"]

Rejected(status, error) ==
    [selectedFormatCode |-> <<>>, estimatedFileSize |-> Undefined,
     requiresMuxing |-> FALSE, status |-> status, error |-> error]

\* Every pair counts as fitting.
PairFitsAlways(combinedSize) == TRUE

\* combinedSize <= this.maxDownloadSizeBytes
PairFits(combinedSize) == combinedSize <= maxDownloadSizeBytes

MergePlan(formats) ==
    LET videos == videoOnlyFormats(formats)
        audios == audioOnlyFormats(formats)
    IN  IF videos # <<>> /\ audios # <<>>
        THEN LET bestVideo == videos[1]
                 bestAudio == audios[1]
                 combinedSize == SizeOrZero(bestVideo) + SizeOrZero(bestAudio)
             IN  IF PairFits(combinedSize)
                 THEN Selected(<<bestVideo.format_id, "+", bestAudio.format_id>>,
                               Num(combinedSize), TRUE)
                 ELSE Rejected(413, "too_large")
        ELSE Rejected(500, "no_valid_formats")

SelectFormat(formats) ==
    LET fit == FirstFit(combinedFormats(formats))
    IN  IF fit # <<>>
        THEN Selected(<<fit[1].format_id>>, SizeOf(fit[1]), FALSE)
        ELSE MergePlan(formats)

(***************************************************************************)
(* State of one download request.                                          *)
(***************************************************************************)
VARIABLES
    pc,               \* where the request is: "idle" (not received), "info"
                      \* (awaiting yt-dlp -j), "spawned" (download process
                      \* started), "finished" (handler over, no download)
    url,              \* req.body.url, "" when missing
    formats,          \* the catalog the pending info call returns (SpecSel)
    plan,             \* selectedFormatCode, estimatedFileSize, requiresMuxing
    res,              \* the response: headersSent, statusCode, error, details
    writes,           \* every attempt to write the response, in order
    resTimeout,       \* res.setTimeout of start(): "unset", "armed", "fired"
    infoProcess,      \* the yt-dlp -j call: "none", "running", "done" (it
                      \* returned a catalog), "failed"
    ytDlpProcess,     \* the download child: "none", "running", "exited",
                      \* "killed", "spawnfail"
    code,             \* the exit code the close event carries
    stderrOutput,     \* the chunks collected from the child's stderr
    downloadTimeout,  \* "unset", "armed", "cleared", "fired"
    downloadDue,      \* the time at which downloadTimeout is due
    emitted           \* the events of the child already handled

requestVars == <<pc, url, formats, plan, res, writes, resTimeout, infoProcess,
                 ytDlpProcess, code, stderrOutput, downloadTimeout, downloadDue,
                 emitted>>

(***************************************************************************)
(* State of the download directory and of its cleanup, cleanUpOldFiles.    *)
(***************************************************************************)
VARIABLES
    clock,            \* Date.now()
    files,            \* the download directory: for each file name its state,
                      \* "absent" (not created yet), "present" or "deleted",
                      \* and its birthtimeMs
    sweepPc,          \* the cleanup: "idle", "readdir" (fs.readdir pending),
                      \* "scanning" (the listing was walked)
    now,              \* const now of the cleanup under way
    entry             \* each file name in the cleanup under way: "none" (not
                      \* listed), "stat" (fs.stat pending), "statfail", "kept",
                      \* "unlink" (fs.unlink pending), "unlinkfail", "deleted"

sweeperVars == <<clock, files, sweepPc, now, entry>>

(***************************************************************************)
(* State of the selections of several requests served by one instance.     *)
(***************************************************************************)
VARIABLES
    catalogs,         \* for each request, the catalog its info call returns
    outcome,          \* for each request, whether its selection is done and
                      \* the plan or rejection it left
    reqUrl,           \* for each request, req.body.url as a sequence of
                      \* characters
    outputPath        \* for each request, the outputFileName of its download,
                      \* <<>> before the handler computes it

concurrentVars == <<catalogs, outcome, reqUrl, outputPath>>

vars == <<requestVars, sweeperVars, concurrentVars>>

Urls == {"", "u1"}

NoPlan == Rejected(0, "none")

NoResponse ==
    [headersSent |-> FALSE, statusCode |-> 0, error |-> "none", details |-> <<>>]

\* res.status(status).json({error, details}) on a response whose headers are
\* not sent yet.
Response(status, error, details) ==
    [headersSent |-> TRUE, statusCode |-> status, error |-> error,
     details |-> details]

\* The response after an attempt to write it: a response already sent stays
\* (json() throws ERR_HTTP_HEADERS_SENT).
Written(r, status, error, details) ==
    IF r.headersSent THEN r ELSE Response(status, error, details)

Attempt(by, status) == [by |-> by, status |-> status]

InitRequest ==
    /\ pc = "idle"
    /\ url = ""
    /\ plan = NoPlan
    /\ res = NoResponse
    /\ writes = <<>>
    /\ resTimeout = "unset"
    /\ infoProcess = "none"
    /\ ytDlpProcess = "none"
    /\ code = Undefined
    /\ stderrOutput = <<>>
    /\ downloadTimeout = "unset"
    /\ downloadDue = 0
    /\ emitted = {}

FileNames == 1..MaxFiles

\* The file name of outputPath, the output file of the download of the
\* request.
OutputFile == 1

\* An empty download directory, no cleanup under way.
InitSweeper ==
    /\ clock = 0
    /\ files = [f \in FileNames |-> [state |-> "absent", birthtimeMs |-> 0]]
    /\ sweepPc = "idle"
    /\ now = 0
    /\ entry = [f \in FileNames |-> "none"]

Requests == 1..3

\* No selection has run.
InitConcurrent ==
    /\ outcome = [r \in Requests |-> [done |-> FALSE, plan |-> NoPlan]]
    /\ outputPath = [r \in Requests |-> <<>>]

\* No selection has run, no url is known.
InitNoRequests ==
    /\ InitConcurrent
    /\ catalogs = [r \in Requests |-> <<>>]
    /\ reqUrl = [r \in Requests |-> <<>>]

Init ==
    /\ InitRequest /\ formats = <<>>
    /\ InitSweeper
    /\ InitNoRequests

(***************************************************************************)
(* Writing the response.                                                   *)
(***************************************************************************)
\* The write without the test of res.headersSent.
GuardedWriteUnchecked(by, status, error, details) ==
    /\ res' = Written(res, status, error, details)
    /\ writes' = Append(writes, Attempt(by, status))

\* if (!res.headersSent) res.status(status).json(...): no attempt is made
\* on a response already sent.
GuardedWrite(by, status, error, details) ==
    IF res.headersSent
    THEN UNCHANGED <<res, writes>>
    ELSE /\ res' = Response(status, error, details)
         /\ writes' = Append(writes, Attempt(by, status))

\* res.status(status).json(...) in the catch block of handleDownload, or
\* before its try block: the attempt is made whatever res.headersSent is.
UnguardedWrite(by, status, error) ==
    /\ res' = Written(res, status, error, <<>>)
    /\ writes' = Append(writes, Attempt(by, status))

\* res.status(status).json(...) inside the try block: on a response already
\* sent json() throws, the catch block (lines 251-260) catches it and makes
\* its own attempt.
WriteInTry(by, status, error) ==
    /\ res' = Written(res, status, error, <<>>)
    /\ writes' = IF res.headersSent
                 THEN writes \o <<Attempt(by, status), Attempt("catch", 500)>>
                 ELSE Append(writes, Attempt(by, status))

(***************************************************************************)
(* The request: start() lines 387-394, handleDownload lines 142-338.       *)
(***************************************************************************)
\* No response timer is set.
ResSetTimeoutMissing == "unset"

\* res.setTimeout(this.timeout, callback) in the 'request' listener of
\* start(): the state of the response timer of a new request.
ResSetTimeout == "armed"

\* The request without the test of the url: the info call starts whatever
\* the url is.
RequestUnchecked(u) ==
    /\ pc = "idle"
    /\ url' = u
    /\ resTimeout' = "armed"
    /\ pc' = "info"
    /\ infoProcess' = "running"
    /\ UNCHANGED <<formats, plan, res, writes, ytDlpProcess, code, stderrOutput,
                   downloadTimeout, emitted>>
    /\ UNCHANGED <<downloadDue, sweeperVars, concurrentVars>>

\* A request POST /api/download with body {url: u} arrives: the 'request'
\* listener of start() arms the response timer (lines 387-394) and
\* handleDownload runs up to its first await (lines 142-155).  The body is
\* read before the response timer can fire.
Request(u) ==
    /\ pc = "idle"
    /\ url' = u
    /\ resTimeout' = ResSetTimeout
    /\ IF u = ""
       THEN /\ UnguardedWrite("handler", 400, "url_required")
            /\ pc' = "finished"
            /\ UNCHANGED infoProcess
       ELSE /\ pc' = "info"
            /\ infoProcess' = "running"
            /\ UNCHANGED <<res, writes>>
    /\ UNCHANGED <<formats, plan, ytDlpProcess, code, stderrOutput,
                   downloadTimeout, emitted>>
    /\ UNCHANGED <<downloadDue, sweeperVars, concurrentVars>>

\* The callback of res.setTimeout, lines 388-393.
ResTimeoutFires ==
    /\ resTimeout = "armed"
    /\ resTimeout' = "fired"
    /\ GuardedWrite("resTimeout", 503, "request_timeout", <<>>)
    /\ UNCHANGED <<pc, url, formats, plan, infoProcess, ytDlpProcess, code,
                   stderrOutput, downloadTimeout, emitted>>
    /\ UNCHANGED <<downloadDue, sweeperVars, concurrentVars>>

\* The failure of the info call swallowed: nothing is written and the
\* handler keeps waiting for a catalog.
InfoFailsSwallowed ==
    /\ pc = "info"
    /\ infoProcess' = "failed"
    /\ UNCHANGED <<pc, url, formats, plan, res, writes, resTimeout, ytDlpProcess,
                   code, stderrOutput, downloadTimeout, emitted>>
    /\ UNCHANGED <<downloadDue, sweeperVars, concurrentVars>>

\* execPromise rejects (yt-dlp -j fails) or JSON.parse throws: the catch
\* block, lines 251-260.
InfoFails ==
    /\ pc = "info"
    /\ pc' = "finished"
    /\ infoProcess' = "failed"
    /\ UnguardedWrite("catch", 500, "select_exception")
    /\ UNCHANGED <<url, formats, plan, resTimeout, ytDlpProcess, code,
                   stderrOutput, downloadTimeout, emitted>>
    /\ UNCHANGED <<downloadDue, sweeperVars, concurrentVars>>

\* yt-dlp -j wrote to stderr: lines 157-161.
InfoStderr ==
    /\ pc = "info"
    /\ pc' = "finished"
    /\ infoProcess' = "failed"
    /\ WriteInTry("info", 500, "info_stderr")
    /\ UNCHANGED <<url, formats, plan, resTimeout, ytDlpProcess, code,
                   stderrOutput, downloadTimeout, emitted>>
    /\ UNCHANGED <<downloadDue, sweeperVars, concurrentVars>>

\* spawn('yt-dlp', ytDlpArgs), lines 264-296: the child runs, or could not
\* be started; the download timeout is armed either way, due this.timeout
\* from now.
Spawn(started) ==
    /\ pc' = "spawned"
    /\ ytDlpProcess' = IF started THEN "running" ELSE "spawnfail"
    /\ downloadTimeout' = "armed"
    /\ downloadDue' = clock + timeout

\* yt-dlp -j returned the catalog c: selection (lines 163-249), then the
\* rejection it answers or the download it starts (lines 264-296).
InfoResolved(c) ==
    /\ pc = "info"
    /\ infoProcess' = "done"
    /\ LET s == SelectFormat(c)
       IN  IF s.status # 0
           THEN /\ WriteInTry("select", s.status, s.error)
                /\ pc' = "finished"
                /\ UNCHANGED <<plan, ytDlpProcess, downloadTimeout, downloadDue>>
           ELSE /\ plan' = s
                /\ \E started \in BOOLEAN : Spawn(started)
                /\ UNCHANGED <<res, writes>>
    /\ UNCHANGED <<url, formats, resTimeout, code, stderrOutput, emitted>>
    /\ UNCHANGED <<sweeperVars, concurrentVars>>

\* ytDlpProcess.stderr.on('data'), lines 282-285.
StderrData ==
    /\ ytDlpProcess = "running"
    /\ Len(stderrOutput) < MaxStderrChunks
    /\ stderrOutput' = Append(stderrOutput, "chunk")
    /\ UNCHANGED <<pc, url, formats, plan, res, writes, resTimeout, infoProcess,
                   ytDlpProcess, code, downloadTimeout, emitted>>
    /\ UNCHANGED <<downloadDue, sweeperVars, concurrentVars>>

\* The download child ends by itself with exit code c.
ProcessExits(c) ==
    /\ ytDlpProcess = "running"
    /\ ytDlpProcess' = "exited"
    /\ code' = Num(c)
    /\ UNCHANGED <<pc, url, formats, plan, res, writes, resTimeout, infoProcess,
                   stderrOutput, downloadTimeout, emitted>>
    /\ UNCHANGED <<downloadDue, sweeperVars, concurrentVars>>

\* The child is left running.
KillNothing(process) == process

\* ytDlpProcess.kill('SIGKILL'): a running child is killed (the close event
\* then carries code null), anything else is left as it is.
Kill(process) == IF process = "running" THEN "killed" ELSE process

\* The callback of downloadTimeout, lines 287-296.
DownloadTimeoutFires ==
    /\ downloadTimeout = "armed"
    /\ downloadTimeout' = "fired"
    /\ ytDlpProcess' = Kill(ytDlpProcess)
    /\ code' = IF ytDlpProcess' = "killed" THEN Null ELSE code
    /\ GuardedWrite("downloadTimeout", 504, "download_timeout", <<>>)
    /\ UNCHANGED <<pc, url, formats, plan, resTimeout, infoProcess, stderrOutput,
                   emitted>>
    /\ UNCHANGED <<downloadDue, sweeperVars, concurrentVars>>

\* The timer is left as it is.
ClearTimeoutNothing(timer) == timer

\* clearTimeout(downloadTimeout)
ClearTimeout(timer) == IF timer = "armed" THEN "cleared" ELSE timer

\* Every close counts as a success.
CloseStatusAlwaysOk(c) == 200

\* code === 0
CloseStatus(c) == IF c = Num(0) THEN 200 ELSE 500

\* stderrOutput || `yt-dlp exited with code ${code}.`
CloseDetails(output, c) ==
    IF output # <<>> THEN output ELSE <<"yt-dlp exited with code", c>>

\* The close handler removes the output file of a download that failed.
CloseRemovingOutput ==
    /\ "close" \notin emitted
    /\ \/ ytDlpProcess \in {"exited", "killed"}
       \/ ytDlpProcess = "spawnfail" /\ "error" \in emitted
    /\ emitted' = emitted \cup {"close"}
    /\ downloadTimeout' = ClearTimeout(downloadTimeout)
    /\ IF CloseStatus(code) = 200
       THEN GuardedWrite("close", 200, "none", <<>>) /\ UNCHANGED files
       ELSE /\ GuardedWrite("close", CloseStatus(code), "download_error",
                            CloseDetails(stderrOutput, code))
            /\ files' = [files EXCEPT ![OutputFile].state =
                             IF @ = "present" THEN "deleted" ELSE @]
    /\ UNCHANGED <<pc, url, formats, plan, resTimeout, infoProcess, ytDlpProcess,
                   code, stderrOutput, downloadDue>>
    /\ UNCHANGED <<clock, sweepPc, now, entry, concurrentVars>>

\* ytDlpProcess.on('close'), lines 298-319.  After a failed spawn the close
\* event follows the error event.
Close ==
    /\ "close" \notin emitted
    /\ \/ ytDlpProcess \in {"exited", "killed"}
       \/ ytDlpProcess = "spawnfail" /\ "error" \in emitted
    /\ emitted' = emitted \cup {"close"}
    /\ downloadTimeout' = ClearTimeout(downloadTimeout)
    /\ IF CloseStatus(code) = 200
       THEN GuardedWrite("close", 200, "none", <<>>)
       ELSE GuardedWrite("close", CloseStatus(code), "download_error",
                         CloseDetails(stderrOutput, code))
    /\ UNCHANGED <<pc, url, formats, plan, resTimeout, infoProcess, ytDlpProcess,
                   code, stderrOutput>>
    /\ UNCHANGED <<downloadDue, sweeperVars, concurrentVars>>

\* The error handler starts the download again.
ErrorRespawns(ffmpeg) ==
    /\ ytDlpProcess = "spawnfail"
    /\ "error" \notin emitted
    /\ ytDlpProcess' = "running"
    /\ UNCHANGED <<pc, url, formats, plan, res, writes, resTimeout, infoProcess,
                   code, stderrOutput, downloadTimeout, emitted>>
    /\ UNCHANGED <<downloadDue, sweeperVars, concurrentVars>>

\* ytDlpProcess.on('error'), lines 321-337: the child could not be started;
\* the message names FFmpeg or not.
Error(ffmpeg) ==
    /\ ytDlpProcess = "spawnfail"
    /\ "error" \notin emitted
    /\ emitted' = emitted \cup {"error"}
    /\ code' = Num(-2)
    /\ downloadTimeout' = ClearTimeout(downloadTimeout)
    /\ GuardedWrite("error", 500,
                    IF ffmpeg THEN "ffmpeg_not_found" ELSE "yt_dlp_exec", <<>>)
    /\ UNCHANGED <<pc, url, formats, plan, resTimeout, infoProcess, ytDlpProcess,
                   stderrOutput>>
    /\ UNCHANGED <<downloadDue, sweeperVars, concurrentVars>>

Next ==
    \/ \E u \in Urls : Request(u)
    \/ ResTimeoutFires
    \/ InfoFails
    \/ InfoStderr
    \/ \E k \in 0..MaxReqFormats : \E sh \in ShapeSeqs(k) : InfoResolved(Catalog(sh))
    \/ StderrData
    \/ \E c \in {0, 1} : ProcessExits(c)
    \/ DownloadTimeoutFires
    \/ Close
    \/ \E ffmpeg \in BOOLEAN : Error(ffmpeg)

Spec == Init /\ [][Next]_vars

\* Timers that are armed fire.
FairSpec == Spec /\ WF_vars(ResTimeoutFires) /\ WF_vars(DownloadTimeoutFires)

(***************************************************************************)
(* The selection on its own: the info call of an accepted request is       *)
(* pending and returns the catalog formats.                                *)
(***************************************************************************)
\* An accepted request whose info call is pending.
InitPending ==
    /\ pc = "info"
    /\ url = "u1"
    /\ plan = NoPlan
    /\ res = NoResponse
    /\ writes = <<>>
    /\ resTimeout = "armed"
    /\ infoProcess = "running"
    /\ ytDlpProcess = "none"
    /\ code = Undefined
    /\ stderrOutput = <<>>
    /\ downloadTimeout = "unset"
    /\ downloadDue = 0
    /\ emitted = {}
    /\ InitSweeper
    /\ InitNoRequests

InitSel ==
    /\ InitPending
    /\ \E k \in 0..MaxFormats : \E sh \in ShapeSeqs(k) : formats = Catalog(sh)

NextSel == InfoResolved(formats)

SpecSel == InitSel /\ [][NextSel]_vars

(***************************************************************************)
(* The selections of the requests one instance serves: each invocation of  *)
(* handleDownload declares its own selectedFormatCode, estimatedFileSize   *)
(* and requiresMuxing (lines 150-152) and selects from the catalog of its  *)
(* own info call (lines 163-164).  A selection runs without yielding, from *)
(* the return of the info call to the response or the spawn; the           *)
(* selections of concurrent requests run in any order.                     *)
(***************************************************************************)
\* The formats of the catalogs of the concurrent requests: combined,
\* video-only and audio-only, one unit each.
ConcurrentShapes == { Fmt(c, "mp4", Num(1), Undefined, Undefined) : c \in Codecs }

\* The locals kept on the instance: a selection whose phase 1 finds nothing
\* goes on with the plan an earlier request left.
SelectRequestShared(r) ==
    /\ ~outcome[r].done
    /\ \E q \in Requests :
          LET left == outcome[q].plan
              found == FirstFit(combinedFormats(catalogs[r])) # <<>>
              s == IF found \/ left.selectedFormatCode = <<>>
                   THEN SelectFormat(catalogs[r])
                   ELSE left
          IN  outcome' = [outcome EXCEPT ![r] = [done |-> TRUE, plan |-> s]]
    /\ UNCHANGED <<catalogs, reqUrl, outputPath, requestVars, sweeperVars>>

\* The info call of request r returned: its selection, lines 150-249.
SelectRequest(r) ==
    /\ ~outcome[r].done
    /\ outcome' = [outcome EXCEPT
                      ![r] = [done |-> TRUE, plan |-> SelectFormat(catalogs[r])]]
    /\ UNCHANGED <<catalogs, reqUrl, outputPath, requestVars, sweeperVars>>

InitConc ==
    /\ InitRequest /\ formats = <<>>
    /\ InitSweeper
    /\ InitConcurrent
    /\ reqUrl = [r \in Requests |-> <<>>]
    /\ catalogs \in [Requests ->
           UNION { {Catalog(sh) : sh \in [1..k -> ConcurrentShapes]} :
                       k \in 0..MaxReqFormats }]

NextConc == \E r \in Requests : SelectRequest(r)

SpecConc == InitConc /\ [][NextConc]_vars

(***************************************************************************)
(* The cleanup of the download directory, cleanUpOldFiles lines 340-373,   *)
(* run by the interval timer of start() (line 396).  A cleanup is over     *)
(* before the next one starts.                                             *)
(***************************************************************************)
\* No callback of the cleanup is pending.
SweepOver ==
    /\ sweepPc # "readdir"
    /\ \A f \in FileNames : entry[f] \notin {"stat", "unlink"}

\* Date.now() advances.
TimePasses ==
    /\ clock < MaxClock
    /\ clock' = clock + 1
    /\ UNCHANGED <<files, sweepPc, now, entry, requestVars, concurrentVars>>

\* A download creates its output file f in the download directory.
FileCreated(f) ==
    /\ files[f].state = "absent"
    /\ files' = [files EXCEPT ![f] = [state |-> "present", birthtimeMs |-> clock]]
    /\ UNCHANGED <<clock, sweepPc, now, entry, requestVars, concurrentVars>>

\* The interval timer calls cleanUpOldFiles: now is taken and fs.readdir is
\* called (lines 341-344).
CleanUpOldFiles ==
    /\ SweepOver
    /\ now' = clock
    /\ sweepPc' = "readdir"
    /\ entry' = [f \in FileNames |-> "none"]
    /\ UNCHANGED <<clock, files, requestVars, concurrentVars>>

\* The callback of fs.readdir with an error (lines 345-348).
ReaddirFails ==
    /\ sweepPc = "readdir"
    /\ sweepPc' = "idle"
    /\ UNCHANGED <<clock, files, now, entry, requestVars, concurrentVars>>

\* The callback of fs.readdir walks no file.
ReaddirReturnsNothing ==
    /\ sweepPc = "readdir"
    /\ sweepPc' = "scanning"
    /\ UNCHANGED <<clock, files, now, entry, requestVars, concurrentVars>>

\* The callback of fs.readdir with the listing: fs.stat is called on every
\* file of it (lines 350-352).
ReaddirReturns ==
    /\ sweepPc = "readdir"
    /\ sweepPc' = "scanning"
    /\ entry' = [f \in FileNames |->
                    IF files[f].state = "present" THEN "stat" ELSE "none"]
    /\ UNCHANGED <<clock, files, now, requestVars, concurrentVars>>

\* A failure of fs.stat abandons the files whose callbacks are pending.
AfterStatFailsAbandon(e, f) ==
    [g \in FileNames |->
        IF g = f THEN "statfail"
        ELSE IF e[g] \in {"stat", "unlink"} THEN "none" ELSE e[g]]

\* The entries after fs.stat failed on f: f is skipped (lines 353-356).
AfterStatFails(e, f) == [e EXCEPT ![f] = "statfail"]

\* The callback of fs.stat on f with an error.
StatFails(f) ==
    /\ entry[f] = "stat"
    /\ entry' = AfterStatFails(entry, f)
    /\ UNCHANGED <<clock, files, sweepPc, now, requestVars, concurrentVars>>

\* The file is old at the threshold already.
IsOldOrAtThreshold(fileAge) == fileAge >= fileRetentionTimeMs

\* fileAge > this.fileRetentionTimeMs
IsOld(fileAge) == fileAge > fileRetentionTimeMs

\* The callback of fs.stat on f with its stats: fs.unlink is called when the
\* file is old (lines 358-368).
StatReturns(f) ==
    /\ entry[f] = "stat"
    /\ files[f].state = "present"
    /\ LET fileAge == now - files[f].birthtimeMs
       IN  entry' = [entry EXCEPT ![f] = IF IsOld(fileAge) THEN "unlink" ELSE "kept"]
    /\ UNCHANGED <<clock, files, sweepPc, now, requestVars, concurrentVars>>

\* The callback of fs.unlink on f with an error (lines 362-363).
UnlinkFails(f) ==
    /\ entry[f] = "unlink"
    /\ entry' = [entry EXCEPT ![f] = "unlinkfail"]
    /\ UNCHANGED <<clock, files, sweepPc, now, requestVars, concurrentVars>>

\* The callback of fs.unlink on f without error: the file is gone
\* (lines 364-366).
UnlinkDone(f) ==
    /\ entry[f] = "unlink"
    /\ files[f].state = "present"
    /\ files' = [files EXCEPT ![f].state = "deleted"]
    /\ entry' = [entry EXCEPT ![f] = "deleted"]
    /\ UNCHANGED <<clock, sweepPc, now, requestVars, concurrentVars>>

InitSweep ==
    /\ InitRequest /\ formats = <<>>
    /\ InitSweeper
    /\ InitNoRequests

NextSweep ==
    \/ TimePasses
    \/ \E f \in FileNames : FileCreated(f)
    \/ CleanUpOldFiles
    \/ ReaddirFails
    \/ ReaddirReturns
    \/ \E f \in FileNames : StatFails(f)
    \/ \E f \in FileNames : StatReturns(f)
    \/ \E f \in FileNames : UnlinkFails(f)
    \/ \E f \in FileNames : UnlinkDone(f)

SpecSweep == InitSweep /\ [][NextSweep]_vars

\* Every pending callback of fs.readdir, fs.stat and fs.unlink is called.
FairSpecSweep ==
    /\ SpecSweep
    /\ WF_vars(ReaddirFails \/ ReaddirReturns)
    /\ \A f \in FileNames :
          /\ WF_vars(StatFails(f) \/ StatReturns(f))
          /\ WF_vars(UnlinkFails(f) \/ UnlinkDone(f))

(***************************************************************************)
(* The output paths of the downloads, handleDownload lines 264-267: two    *)
(* requests with a url each, whose handlers reach these lines at any time. *)
(***************************************************************************)
\* The characters of the urls: two alphanumeric ones and two others.
UrlChars == {"a", "b", "-", "_"}

\* [a-zA-Z0-9]
IsAlphanumeric(ch) == ch \in {"a", "b"}

\* The urls of the requests: the non-empty strings of up to MaxUrlLen
\* characters.
UrlStrings == UNION { [1..n -> UrlChars] : n \in 1..MaxUrlLen }

\* url.replace(/[^a-zA-Z0-9]/g, '_').substring(0, 50)
sanitizedUrl(u) ==
    LET replaced == [i \in DOMAIN u |-> IF IsAlphanumeric(u[i]) THEN u[i] ELSE "_"]
    IN  SubSeq(replaced, 1, IF Len(u) < fragmentLength THEN Len(u) ELSE fragmentLength)

\* `${sanitizedUrl}_${timestamp}.mp4`: the two parts of the name; the
\* timestamp holds digits only, so that two names are equal exactly when
\* both parts are.
outputFileName(u, timestamp) == <<sanitizedUrl(u), timestamp>>

\* The handler of request r, its url given and a plan selected, computes
\* the output path of its download (lines 264-267).
ComputeOutputPath(r) ==
    /\ reqUrl[r] # <<>>
    /\ outputPath[r] = <<>>
    /\ outputPath' = [outputPath EXCEPT ![r] = outputFileName(reqUrl[r], clock)]
    /\ UNCHANGED <<catalogs, outcome, reqUrl, requestVars, sweeperVars>>

InitPaths ==
    /\ InitRequest /\ formats = <<>>
    /\ InitSweeper
    /\ InitConcurrent
    /\ catalogs = [r \in Requests |-> <<>>]
    /\ \E u1, u2 \in UrlStrings :
          reqUrl = [r \in Requests |->
                       IF r = 1 THEN u1 ELSE IF r = 2 THEN u2 ELSE <<>>]

NextPaths ==
    \/ TimePasses
    \/ \E r \in Requests : ComputeOutputPath(r)

SpecPaths == InitPaths /\ [][NextPaths]_vars

(***************************************************************************)
(* One download and the cleanup, on one clock: an accepted request whose   *)
(* info call returns a catalog with a format within the budget, the output *)
(* file its download writes, and the cleanups of the download directory.   *)
(* Timers run on time: the download timeout fires when it is due, before   *)
(* the clock moves on.                                                     *)
(***************************************************************************)
\* The running download creates its output file.
DownloadWrites ==
    /\ ytDlpProcess = "running"
    /\ FileCreated(OutputFile)

\* The download timeout fires at the time it is due.
DownloadTimeoutDue ==
    /\ clock = downloadDue
    /\ DownloadTimeoutFires

\* Date.now() advances, not past the time an armed download timeout is due.
TimeAdvances ==
    /\ downloadTimeout = "armed" => clock < downloadDue
    /\ TimePasses

InitDisk ==
    /\ InitPending
    /\ formats = Catalog(<<Fmt(<<"avc1", "mp4a">>, "mp4", Num(1), Undefined, Undefined)>>)

NextDisk ==
    \/ InfoResolved(formats)
    \/ ResTimeoutFires
    \/ DownloadWrites
    \/ \E c \in {0, 1} : ProcessExits(c)
    \/ DownloadTimeoutDue
    \/ Close
    \/ \E ffmpeg \in BOOLEAN : Error(ffmpeg)
    \/ TimeAdvances
    \/ CleanUpOldFiles
    \/ ReaddirFails
    \/ ReaddirReturns
    \/ \E f \in FileNames : StatFails(f)
    \/ \E f \in FileNames : StatReturns(f)
    \/ \E f \in FileNames : UnlinkFails(f)
    \/ \E f \in FileNames : UnlinkDone(f)

SpecDisk == InitDisk /\ [][NextDisk]_vars

\* The interval timer keeps calling cleanUpOldFiles, and the listing, the
\* stat and the delete of a file do not fail for ever.
FairSpecDisk ==
    /\ SpecDisk
    /\ WF_vars(CleanUpOldFiles)
    /\ SF_vars(ReaddirReturns)
    /\ \A f \in FileNames :
          /\ SF_vars(StatReturns(f))
          /\ SF_vars(UnlinkDone(f))

(***************************************************************************)
(* Vocabulary of the claims: the data model of the specification, read off *)
(* a format of the catalog.                                                *)
(***************************************************************************)
hasVideo(f) == f.vcodec # "none"

hasAudio(f) == f.acodec # "none"

\* The effective size is known when one of the size fields carries a number.
KnownSize(f) == IsNum(f.filesize) \/ IsNum(f.filesize_approx)

\* The exact size if present, else the approximate one.
EffectiveSize(f) ==
    IF IsNum(f.filesize) THEN f.filesize[2] ELSE f.filesize_approx[2]

\* The preference, 0 when absent.
Preference(f) == IF IsNum(f.preference) THEN f.preference[2] ELSE 0

Allowed(f) == f.ext \in {"mp4", "webm"}

EligibleCombined(f) == hasVideo(f) /\ hasAudio(f) /\ KnownSize(f) /\ Allowed(f)

EligibleVideoOnly(f) == hasVideo(f) /\ ~hasAudio(f) /\ KnownSize(f) /\ Allowed(f)

EligibleAudioOnly(f) == hasAudio(f) /\ ~hasVideo(f) /\ KnownSize(f) /\ Allowed(f)

Positions == DOMAIN formats

CombinedInBudget ==
    { i \in Positions : /\ EligibleCombined(formats[i])
                        /\ EffectiveSize(formats[i]) <= maxDownloadSizeBytes }

VideoOnly == { i \in Positions : EligibleVideoOnly(formats[i]) }

AudioOnly == { i \in Positions : EligibleAudioOnly(formats[i]) }

\* (preference, size) of i is at most that of j, lexicographically.
RankedAtMost(i, j) ==
    \/ Preference(formats[i]) < Preference(formats[j])
    \/ /\ Preference(formats[i]) = Preference(formats[j])
       /\ EffectiveSize(formats[i]) <= EffectiveSize(formats[j])

\* The member of S of the highest preference, the earliest in the catalog
\* among equals.
Best(S) ==
    CHOOSE i \in S : \A j \in S :
        \/ Preference(formats[j]) < Preference(formats[i])
        \/ Preference(formats[j]) = Preference(formats[i]) /\ i <= j

\* The selection of the request is over.
Resolved == pc \in {"spawned", "finished"}

Launched == ytDlpProcess # "none"

IsCombinedPlan ==
    /\ Launched /\ ~plan.requiresMuxing /\ Len(plan.selectedFormatCode) = 1

IsMergedPlan ==
    /\ Launched /\ plan.requiresMuxing /\ Len(plan.selectedFormatCode) = 3

TooLarge == res.statusCode = 413 /\ ~Launched

NoViableFormats ==
    /\ res.statusCode = 500
    /\ res.error \in {"no_valid_formats", "no_suitable_format"}
    /\ ~Launched

DownloadWriters == {"downloadTimeout", "close", "error"}

(***************************************************************************)
(* The claims.                                                             *)
(***************************************************************************)
\* C1: of the download timeout, the close event and the error event of one
\* download, only one writes the response, and only if no response was
\* written before: each write of theirs is the first write of the request,
\* and it is the response sent.
C1_OneDownloadOutcome ==
    \A i \in DOMAIN writes :
        writes[i].by \in DownloadWriters =>
            i = 1 /\ res.headersSent /\ res.statusCode = writes[i].status

\* The download timeout fired first and answered 504; the close event that
\* followed the kill wrote nothing.
C1_Witness ==
    /\ downloadTimeout = "fired"
    /\ "close" \in emitted
    /\ writes = <<Attempt("downloadTimeout", 504)>>

\* C2: for the whole request no write of the response is attempted after a
\* response was sent: there is never a second attempt.
C2_NoWriteAfterResponse == Len(writes) <= 1

\* C3: when the catalog holds an eligible combined format within the
\* budget, the selection launches a Combined plan naming one of them, and
\* none of them ranks above it by (preference, effective size).
C3_BestCombinedInBudget ==
    (Resolved /\ CombinedInBudget # {}) =>
        /\ IsCombinedPlan
        /\ plan.selectedFormatCode[1] \in CombinedInBudget
        /\ \A j \in CombinedInBudget : RankedAtMost(j, plan.selectedFormatCode[1])

\* C4: when no eligible combined format is within the budget and some
\* eligible video-only and audio-only formats have sizes summing to at most
\* the budget, the selection launches a Merged plan.
C4_MergedWhenSomePairFits ==
    ( /\ Resolved
      /\ CombinedInBudget = {}
      /\ \E v \in VideoOnly : \E a \in AudioOnly :
            EffectiveSize(formats[v]) + EffectiveSize(formats[a])
                <= maxDownloadSizeBytes )
    => IsMergedPlan

\* C5: when no eligible combined format is within the budget, both the
\* video-only and the audio-only eligible lists are non-empty and the sizes
\* of the highest-preference format of each sum to more than the budget,
\* the request is answered 413 and no download is launched.
C5_TooLargeOnBestPair ==
    ( /\ Resolved
      /\ CombinedInBudget = {}
      /\ VideoOnly # {} /\ AudioOnly # {}
      /\ EffectiveSize(formats[Best(VideoOnly)])
            + EffectiveSize(formats[Best(AudioOnly)]) > maxDownloadSizeBytes )
    => TooLarge

\* C6: when the catalog holds no eligible format at all, the request is
\* answered with the no-viable-formats 500 and no download is launched.
C6_NoViableFormats ==
    ( /\ Resolved
      /\ \A i \in Positions : /\ ~EligibleCombined(formats[i])
                               /\ ~EligibleVideoOnly(formats[i])
                               /\ ~EligibleAudioOnly(formats[i]) )
    => NoViableFormats

\* C7: when the catalog holds eligible formats giving both tracks and every
\* candidate plan, combined or paired, exceeds the budget, the request is
\* answered 413, not with the no-viable-formats 500.
C7_TooLargeNotNoViable ==
    LET bothTracks ==
            \/ \E i \in Positions : EligibleCombined(formats[i])
            \/ VideoOnly # {} /\ AudioOnly # {}
        somePlanFits ==
            \/ CombinedInBudget # {}
            \/ \E v \in VideoOnly : \E a \in AudioOnly :
                   EffectiveSize(formats[v]) + EffectiveSize(formats[a])
                       <= maxDownloadSizeBytes
    IN  (Resolved /\ bothTracks /\ ~somePlanFits) =>
            TooLarge /\ ~NoViableFormats

\* C8: once the download timeout has fired the download process is not
\* running any more, and a process it killed leaves the request answered
\* with a timeout, 504 or 503, whatever happens afterwards.
C8_TimeoutKillsAndAnswers ==
    /\ downloadTimeout = "fired" => ytDlpProcess # "running"
    /\ ytDlpProcess = "killed" =>
           res.headersSent /\ res.statusCode \in {503, 504}

\* The process was killed by the download timeout, which answered 504, and
\* its close event has been handled.
C8_Witness ==
    /\ ytDlpProcess = "killed"
    /\ "close" \in emitted
    /\ res.statusCode = 504

\* C9: under fair timers every accepted request is eventually answered.
C9_EveryRequestAnswered == (pc # "idle") ~> res.headersSent

\* The info call has not returned and the response timer answered 503.
C9_Witness ==
    /\ pc = "info"
    /\ infoProcess = "running"
    /\ res.statusCode = 503

\* C10: the response is 200 exactly when the first write of the request is
\* the close handler's with exit code 0; when the first write is the close
\* handler's with another code, the response is the 500 download error
\* carrying the collected stderr output.
C10_SuccessIffCleanClose ==
    LET closeFirst == writes # <<>> /\ writes[1].by = "close"
    IN  /\ res.statusCode = 200 <=> (closeFirst /\ code = Num(0))
        /\ (closeFirst /\ code # Num(0)) =>
               /\ res.statusCode = 500
               /\ res.error = "download_error"
               /\ stderrOutput # <<>> => res.details = stderrOutput

\* The download ended with exit code 0 and its close event answered 200.
C10_Witness ==
    /\ res.statusCode = 200
    /\ "close" \in emitted
    /\ ytDlpProcess = "exited"

PlanFormats ==
    IF Len(plan.selectedFormatCode) = 3
    THEN {plan.selectedFormatCode[1], plan.selectedFormatCode[3]}
    ELSE {plan.selectedFormatCode[1]}

\* The sum of the effective sizes of the formats the launched plan names.
PlanEffectiveSize ==
    IF Len(plan.selectedFormatCode) = 3
    THEN EffectiveSize(formats[plan.selectedFormatCode[1]])
             + EffectiveSize(formats[plan.selectedFormatCode[3]])
    ELSE EffectiveSize(formats[plan.selectedFormatCode[1]])

\* The response is one of the two retrieval failures of the info call.
RetrievalFailure ==
    /\ res.statusCode = 500
    /\ res.error \in {"select_exception", "info_stderr"}

C15_MissingUrl ==
    (pc # "idle" /\ url = "") =>
        /\ pc = "finished"
        /\ res.headersSent /\ res.statusCode = 400
        /\ writes = <<Attempt("handler", 400)>>
        /\ infoProcess = "none"
        /\ ytDlpProcess = "none"
        /\ downloadTimeout = "unset"

\* A request without url was answered 400, and its response timer has fired
\* since.
C15_Witness ==
    /\ url = "" /\ pc = "finished"
    /\ res.statusCode = 400
    /\ resTimeout = "fired"

\* C16, as stated: when the info call fails the response is the retrieval
\* failure 500, no plan is selected and no download is launched.
C16_RetrievalFailure500 ==
    infoProcess = "failed" =>
        RetrievalFailure /\ plan = NoPlan /\ ~Launched

\* C16, amended: when the info call fails the handler is over, no plan is
\* selected and no download is launched; the response is the retrieval
\* failure 500, unless the response timer had answered 503 before; and the
\* info call is never run again.
C16_RetrievalFailure ==
    /\ [](infoProcess = "failed" =>
            /\ pc = "finished"
            /\ plan = NoPlan
            /\ ~Launched
            /\ downloadTimeout = "unset"
            /\ \/ RetrievalFailure
               \/ /\ res.statusCode = 503
                  /\ writes[1] = Attempt("resTimeout", 503))
    /\ [][infoProcess = "failed" => infoProcess' = "failed"]_vars

\* The info call wrote to stderr and the request was answered with the
\* retrieval failure.
C16_Witness ==
    /\ infoProcess = "failed"
    /\ res.statusCode = 500 /\ res.error = "info_stderr"
    /\ resTimeout = "fired"

\* The eligible combined format that comes first by preference, then size,
\* then catalog order.
IsFirstCombined(i) ==
    /\ EligibleCombined(formats[i])
    /\ \A j \in Positions \ {i} :
           EligibleCombined(formats[j]) =>
               /\ RankedAtMost(j, i)
               /\ RankedAtMost(i, j) => i < j

\* C17: when the first eligible combined format in sort order has the exact
\* size 0, the selection launches the Combined plan naming it.
C17_SizeZeroSelectable ==
    \A i \in Positions :
        ( /\ Resolved
          /\ IsFirstCombined(i)
          /\ formats[i].filesize = Num(0) )
        => IsCombinedPlan /\ plan.selectedFormatCode = <<i>>

\* C18: no format of unknown effective size is part of a launched plan.
C18_NoUnknownSizeInPlan ==
    Launched => \A i \in PlanFormats : KnownSize(formats[i])

\* C19: a launched Combined plan names one format with both tracks, a
\* launched Merged plan pairs one video-only with one audio-only format, and
\* no format without any track is part of a launched plan.
C19_PlanHasBothTracks ==
    Launched =>
        /\ \/ /\ IsCombinedPlan
              /\ hasVideo(formats[plan.selectedFormatCode[1]])
              /\ hasAudio(formats[plan.selectedFormatCode[1]])
           \/ /\ IsMergedPlan
              /\ plan.selectedFormatCode[2] = "+"
              /\ hasVideo(formats[plan.selectedFormatCode[1]])
              /\ ~hasAudio(formats[plan.selectedFormatCode[1]])
              /\ hasAudio(formats[plan.selectedFormatCode[3]])
              /\ ~hasVideo(formats[plan.selectedFormatCode[3]])
        /\ \A i \in PlanFormats : hasVideo(formats[i]) \/ hasAudio(formats[i])

\* A Merged plan was launched from a catalog that holds a format without any
\* track.
C19_Witness ==
    /\ IsMergedPlan
    /\ \E i \in Positions : ~hasVideo(formats[i]) /\ ~hasAudio(formats[i])

\* C20: a launched Merged plan names the eligible video-only format and the
\* eligible audio-only format of the highest preference (the earliest in the
\* catalog among equals), its selector is "<videoId>+<audioId>", its muxing
\* flag is set and its estimated size is the sum of their effective sizes.
C20_MergedIsBestPair ==
    IsMergedPlan =>
        /\ VideoOnly # {} /\ AudioOnly # {}
        /\ plan.selectedFormatCode = <<Best(VideoOnly), "+", Best(AudioOnly)>>
        /\ plan.requiresMuxing
        /\ plan.estimatedFileSize =
               Num(EffectiveSize(formats[Best(VideoOnly)])
                       + EffectiveSize(formats[Best(AudioOnly)]))

\* The age of file f in the cleanup under way.
Age(f) == now - files[f].birthtimeMs

\* C13: a cleanup deletes a file only if its age, the start of the cleanup
\* minus the creation time, strictly exceeds the retention threshold; and
\* once the cleanup is over, every listed file of such an age is deleted
\* unless its stat or its delete failed, and every listed file of an age at
\* or below the threshold is still there.
C13_SweepDeletesOnlyOld ==
    /\ [][\A f \in FileNames :
            (files[f].state = "present" /\ files'[f].state = "deleted") =>
                Age(f) > fileRetentionTimeMs]_vars
    /\ []((SweepOver /\ sweepPc = "scanning") =>
            \A f \in FileNames :
                entry[f] # "none" =>
                    IF Age(f) > fileRetentionTimeMs
                    THEN entry[f] \in {"deleted", "statfail", "unlinkfail"}
                    ELSE /\ entry[f] \in {"kept", "statfail"}
                         /\ files[f].state = "present")

\* A cleanup is over: it deleted the file older than the threshold and kept
\* the file whose age is the threshold exactly.
C13_Witness ==
    /\ SweepOver /\ sweepPc = "scanning"
    /\ \E f, g \in FileNames :
          /\ entry[f] = "deleted" /\ files[f].state = "deleted"
          /\ entry[g] = "kept" /\ files[g].state = "present"
          /\ Age(g) = fileRetentionTimeMs

\* C14: whatever the order of the callbacks and whichever stat or delete
\* fails on other files, every listed file whose age exceeds the retention
\* threshold ends up deleted in the same cleanup, unless its own stat or
\* delete fails.
C14_FailureSkipsOneEntry ==
    \A f \in FileNames :
        (entry[f] = "stat" /\ Age(f) > fileRetentionTimeMs)
            ~> (entry[f] \in {"deleted", "statfail", "unlinkfail"})

\* In one cleanup the stat or the delete of one file failed and another
\* file, older than the threshold, was deleted.
C14_Witness ==
    \E f, g \in FileNames :
        /\ entry[f] \in {"statfail", "unlinkfail"}
        /\ Age(f) > fileRetentionTimeMs
        /\ entry[g] = "deleted"

\* What the request did is what the selection s says: the plan launched, or
\* the rejection answered.
OutcomeIs(s) ==
    IF s.status = 0
    THEN Launched /\ plan = s
    ELSE ~Launched /\ res.statusCode = s.status /\ res.error = s.error

\* The catalog without the formats whose container is outside the allowlist.
AllowedOnly(c) == SelectSeq(c, LAMBDA f : Allowed(f))

\* C21: every format a launched plan names has a container of the allowlist,
\* and the formats of other containers have no influence: the outcome, plan
\* or rejection, is the outcome on the catalog without them.
C21_OnlyAllowedContainers ==
    Resolved =>
        /\ Launched => \A i \in PlanFormats : Allowed(formats[i])
        /\ OutcomeIs(SelectFormat(AllowedOnly(formats)))

\* The request was answered 413 although the catalog holds a format with
\* both tracks, within the budget, in a container outside the allowlist.
C21_Witness ==
    /\ TooLarge
    /\ \E i \in Positions :
          /\ ~Allowed(formats[i])
          /\ hasVideo(formats[i]) /\ hasAudio(formats[i])
          /\ KnownSize(formats[i])
          /\ EffectiveSize(formats[i]) <= maxDownloadSizeBytes

\* The format declares no preference.
LacksPreference(f) == ~IsNum(f.preference)

\* The catalog with preference 0 declared wherever none is.
WithPreferenceZero(c) ==
    [i \in DOMAIN c |->
        IF LacksPreference(c[i]) THEN [c[i] EXCEPT !.preference = Num(0)] ELSE c[i]]

\* The three sorted lists of the selection.
SortedLists ==
    {combinedFormats(formats), videoOnlyFormats(formats), audioOnlyFormats(formats)}

\* What C22 says of a format lacking a preference, but for the lowest tier:
\* the outcome is the outcome with preference 0 declared, the format stays
\* in the list of its kind, and it is ordered after every format of a higher
\* declared preference.
LikePreferenceZero ==
    /\ Resolved => OutcomeIs(SelectFormat(WithPreferenceZero(formats)))
    /\ \A i \in Positions :
          LacksPreference(formats[i]) =>
              /\ EligibleCombined(formats[i]) =>
                     \E a \in DOMAIN combinedFormats(formats) :
                         combinedFormats(formats)[a] = formats[i]
              /\ EligibleVideoOnly(formats[i]) =>
                     \E a \in DOMAIN videoOnlyFormats(formats) :
                         videoOnlyFormats(formats)[a] = formats[i]
              /\ EligibleAudioOnly(formats[i]) =>
                     \E a \in DOMAIN audioOnlyFormats(formats) :
                         audioOnlyFormats(formats)[a] = formats[i]
    /\ \A L \in SortedLists : \A a, b \in DOMAIN L :
          (a < b /\ LacksPreference(L[a])) => Preference(L[b]) <= 0

\* C22, as stated: a format lacking a preference is treated like one of
\* preference 0, and no format of its list is ranked in a tier below it.
C22_MissingPreferenceLowest ==
    /\ LikePreferenceZero
    /\ \A L \in SortedLists : \A a, b \in DOMAIN L :
          (a < b /\ LacksPreference(L[a])) => Preference(L[b]) = 0

\* C22, amended: a format lacking a preference is treated like one of
\* preference 0; it is ordered after every format of a higher declared
\* preference and before every format of a negative declared preference.
C22_MissingPreferenceIsZero ==
    /\ LikePreferenceZero
    /\ \A L \in SortedLists : \A a, b \in DOMAIN L :
          (a < b /\ LacksPreference(L[b])) => Preference(L[a]) >= 0

\* The plan names a combined format without preference, chosen after one of
\* preference 1 that is over the budget and before one of preference -1.
C22_Witness ==
    /\ IsCombinedPlan
    /\ LacksPreference(formats[plan.selectedFormatCode[1]])
    /\ \E i, j \in Positions :
          /\ EligibleCombined(formats[i]) /\ Preference(formats[i]) > 0
          /\ EligibleCombined(formats[j]) /\ Preference(formats[j]) < 0

\* C23: the info call and the download are each started at most once per
\* request and never started again after they ended, failed or were killed;
\* the download is started only after the info call returned a catalog and
\* the selection left a format code.
C23_SingleShotCalls ==
    /\ [](infoProcess # "none" => url # "")
    /\ [](ytDlpProcess # "none" =>
            /\ infoProcess = "done"
            /\ plan.status = 0 /\ plan.selectedFormatCode # <<>>)
    /\ [][/\ infoProcess # "none" => infoProcess' \notin {"none"}
          /\ infoProcess \in {"done", "failed"} => infoProcess' = infoProcess
          /\ ytDlpProcess # "none" => ytDlpProcess' # "none"
          /\ ytDlpProcess \notin {"none", "running"} =>
                 ytDlpProcess' = ytDlpProcess]_vars

\* The download could not be started; its error and close events were
\* handled and nothing was started again.
C23_Witness ==
    /\ infoProcess = "done"
    /\ ytDlpProcess = "spawnfail"
    /\ emitted = {"error", "close"}
    /\ res.statusCode = 500

\* The close or the error event of the download has been handled.
DownloadEnded == "close" \in emitted \/ "error" \in emitted

\* C25: once the close or the error event of a download has been handled,
\* its timeout is cancelled: the callback never runs afterwards, no process
\* is killed and no 504 is written.
C25_TimeoutCancelled ==
    /\ [](DownloadEnded => downloadTimeout \in {"cleared", "fired"})
    /\ [][DownloadEnded =>
            /\ downloadTimeout' = downloadTimeout
            /\ ytDlpProcess' = ytDlpProcess
            /\ res'.statusCode = 504 => res.statusCode = 504]_vars

\* The download ended with code 0 before its timeout: the close handler
\* cancelled the timeout and answered 200.
C25_Witness ==
    /\ "close" \in emitted
    /\ downloadTimeout = "cleared"
    /\ res.statusCode = 200

\* C26: once the request is answered with a timeout, 503 or 504, no process
\* started for it is left running without a pending timer that kills it:
\* the info call is not running, and a running download has its timeout
\* armed.
C26_NoProcessLeftRunning ==
    res.statusCode \in {503, 504} =>
        /\ infoProcess # "running"
        /\ ytDlpProcess = "running" => downloadTimeout = "armed"

\* C29: the download is never started for a request that is answered
\* already.
C29_NoLaunchAfterAnswer ==
    [][(ytDlpProcess = "none" /\ ytDlpProcess' # "none") => ~res.headersSent]_vars

\* C24: two requests for different urls never get the same output path.
C24_DistinctOutputPaths ==
    \A r1, r2 \in Requests :
        ( /\ reqUrl[r1] # reqUrl[r2]
          /\ outputPath[r1] # <<>> /\ outputPath[r2] # <<>> )
        => outputPath[r1] # outputPath[r2]

\* C27: no step of the request path removes a file of the download
\* directory: a step of the handler, of its timers or of the events of its
\* download leaves the files as they are, and a file goes only when the
\* cleanup deletes it.
C27_RequestPathDeletesNothing ==
    /\ [][requestVars' # requestVars => files' = files]_vars
    /\ [][\A f \in FileNames :
            (files[f].state = "present" /\ files'[f].state # "present") =>
                entry[f] = "unlink" /\ entry'[f] = "deleted"]_vars

\* The download was killed by its timeout and its close event handled; the
\* partial output file is still there.
C27_Witness ==
    /\ ytDlpProcess = "killed"
    /\ "close" \in emitted
    /\ files[OutputFile].state = "present"

\* C28: the output file of a download, whatever became of the download,
\* is eventually deleted by a cleanup once its age exceeds the retention
\* threshold, when the cleanup timer keeps firing and the listing, the stat
\* and the delete of the file do not fail for ever.
C28_OldFilesEventuallyDeleted ==
    ( /\ files[OutputFile].state = "present"
      /\ clock - files[OutputFile].birthtimeMs > fileRetentionTimeMs )
        ~> (files[OutputFile].state = "deleted")

\* The partial output file of a download killed by its timeout was deleted
\* by a cleanup.
C28_Witness ==
    /\ ytDlpProcess = "killed"
    /\ files[OutputFile].state = "deleted"
    /\ entry[OutputFile] = "deleted"

\* C30: with a timeout that does not exceed the retention threshold, the
\* cleanup never deletes the output file of a download whose process is
\* still running.
C30_RunningDownloadKeepsFile ==
    ytDlpProcess = "running" =>
        /\ files[OutputFile].state # "deleted"
        /\ entry[OutputFile] \notin {"unlink", "deleted"}

\* A cleanup looked at the output file of a running download when its age
\* was the retention threshold exactly, and kept it.
C30_Witness ==
    /\ ytDlpProcess = "running"
    /\ files[OutputFile].state = "present"
    /\ entry[OutputFile] = "kept"
    /\ Age(OutputFile) = fileRetentionTimeMs

=============================================================================
